---- MODULE Spec2Model ----
(***************************************************************************)
(* A model of the pyChilizer button scripts:                               *)
(*   - "Rename Views"  (Project.panel/edit.stack/Rename Views.pushbutton)  *)
(*   - "Door QA"       (Annotate.panel/Legends.stack/Listdoor.pushbutton)  *)
(*   - "Door Tag QA"   (Project.panel/edit.stack/Listdoor.pushbutton)      *)
(* Strings are sequences of characters, so that strip() and replace() are  *)
(* computed character by character as Python computes them.                *)
(***************************************************************************)
EXTENDS Integers, Sequences, FiniteSets, TLC

VARIABLES
    \* ---- Rename Views ----
    viewName,      \* doc: view id -> view.Name
    viewClass,     \* doc: view id -> what collect_views() tests (template, sheet, ...)
    startName,     \* history: view.Name of every view when the tool was started
    pc,            \* position in main() of Rename Views
    rows,          \* the ObservableCollection of ViewRow shown in the grid
    rename_map,    \* first component returned by ensure_unique_names
    error,         \* second component returned by ensure_unique_names
    txn,           \* revit.Transaction("Rename Views"): "none", "open", "committed"
    pending,       \* keys of rename_map.items() not yet visited by apply_renames
    ncommit,       \* history: number of transactions committed in this run
    DialogResult,  \* window.DialogResult: "None" until the dialog is closed
    nvalidate,     \* history: number of calls of ensure_unique_names in this run
    \* ---- Door QA ----
    qa_pc,               \* position in the Door QA script
    doors,               \* the collected door ids, in collector order
    absent_ids,          \* history: doors whose Mark parameter does not exist
    door_infos,          \* list of info dicts, one per door visited
    missing_mark_rows,   \* rows of the "missing Mark" table
    mark_map,            \* dict: trimmed Mark -> list of infos
    keys_left,           \* keys of mark_map.items() not yet visited
    duplicate_mark_rows, \* rows of the "duplicate Mark" table
    all_rows,            \* rows of the "All Doors" table
    \* ---- Door Tag QA: the body of "for tag in tags" ----
    tag,            \* what the host answers for the tag being resolved
    r_pc,           \* position in the loop body
    tagged_elems,   \* list of elements the tag points to
    ref_ids,        \* set of element ids found by the id based methods
    consulted,      \* history: the accessors called, in call order
    escaped,        \* history: an exception left the loop body
    tag_doors,      \* the door ids this tag adds to tagged_door_ids
    tag_link,       \* history: the elements the tag is attached to in the document
    runs,           \* history: how often the tag has been resolved
    first_doors,    \* history: what the first resolution added
    \* ---- Door Tag QA: run() ----
    tq_pc,                  \* position in run()
    tdoors,                 \* doors = get_doors(), as door ids
    door_ids,               \* set of all door ids
    plan_views,             \* non template floor plans, as view ids
    elev_views,             \* non template elevations, as view ids
    scan_pos,               \* index of the view being scanned, 0 before the first
    tagged_door_ids,        \* result set of the running scan
    doors_tagged_in_plans,
    doors_tagged_in_elevs,
    tq_all_rows,            \* rows of the "All doors" table
    inconsistent_rows,      \* rows of the inconsistency table
    ann_doors,              \* history: per view kind, the doors tags pointed to
    ann_texts,              \* history: per view kind and door, the display texts seen
    other_views,            \* history: the templates and the views of other types
    off_doors,              \* history: the doors tags in the other views point to
    scanned,                \* history: per view kind, the views whose tags were read
    \* ---- Duplicate Door / Duplicate window: the unique type name generator ----
    gen_kind,          \* which script's generator runs
    gen_pc,            \* position in the generator
    base_name,         \* argument base_name
    existing_names,    \* names of the family's types
    counter,
    gen_result         \* the returned name

renameVars == <<viewName, viewClass, startName, pc, rows, rename_map, error, txn,
                pending, ncommit, DialogResult, nvalidate>>

qaVars == <<qa_pc, doors, absent_ids, door_infos, missing_mark_rows, mark_map,
            keys_left, duplicate_mark_rows, all_rows>>

resolveVars == <<tag, r_pc, tagged_elems, ref_ids, consulted, escaped, tag_doors,
                 tag_link, runs, first_doors>>

tagqaVars == <<tq_pc, tdoors, door_ids, plan_views, elev_views, scan_pos,
               tagged_door_ids, doors_tagged_in_plans, doors_tagged_in_elevs,
               tq_all_rows, inconsistent_rows, ann_doors, ann_texts, other_views,
               off_doors, scanned>>

genVars == <<gen_kind, gen_pc, base_name, existing_names, counter, gen_result>>

vars == <<renameVars, qaVars, resolveVars, tagqaVars, genVars>>

(***************************************************************************)
(* Bounds and input alphabets                                              *)
(***************************************************************************)
\* longest text typed into a grid cell or a find/replace box
MaxLen == 2
\* number of View elements in the document
NumViews == 2
\* number of door instances in the model
NumDoors == 3
\* number of door instances in the model checked by Door Tag QA
NumTagDoors == 1
\* most references one accessor of a tag returns
MaxRefs == 1
\* number of views in the document checked by Door Tag QA
NumTagViews == 2

Chars == {"a", " "}
Whitespace == {" "}

\* every string of at most MaxLen characters
Names == UNION {[1..n -> Chars] : n \in 0..MaxLen}

\* Python None where a string is expected
None == <<"None">>

(***************************************************************************)
(* Python string primitives                                                *)
(***************************************************************************)
RECURSIVE lstrip(_)
lstrip(s) ==
    IF s # <<>> /\ Head(s) \in Whitespace THEN lstrip(Tail(s)) ELSE s

RECURSIVE rstrip(_)
rstrip(s) ==
    IF s # <<>> /\ s[Len(s)] \in Whitespace
    THEN rstrip(SubSeq(s, 1, Len(s) - 1))
    ELSE s

\* str.strip() with no argument: a mutant that forgets the trailing side
strip_leading_only(s) == lstrip(s)

\* str.strip() with no argument
strip(s) == rstrip(lstrip(s))

startswith(s, f) == Len(f) <= Len(s) /\ SubSeq(s, 1, Len(f)) = f

\* str.replace(find, repl) for a non-empty find: non-overlapping, left to right
RECURSIVE replace(_, _, _)
replace(s, f, r) ==
    IF s = <<>> THEN <<>>
    ELSE IF startswith(s, f)
         THEN r \o replace(SubSeq(s, Len(f) + 1, Len(s)), f, r)
         ELSE <<Head(s)>> \o replace(Tail(s), f, r)

\* (x or '')
or_empty(x) == IF x = None THEN <<>> ELSE x

\* code point order of the alphabet (space sorts before letters)
CharRank(c) == IF c \in Whitespace THEN 0 ELSE 1

\* s < t for Python strings
RECURSIVE NameLess(_, _)
NameLess(s, t) ==
    IF t = <<>> THEN FALSE
    ELSE IF s = <<>> THEN TRUE
    ELSE IF CharRank(Head(s)) # CharRank(Head(t)) THEN CharRank(Head(s)) < CharRank(Head(t))
    ELSE NameLess(Tail(s), Tail(t))

\* s consists of whitespace only (or is empty), stated without strip()
IsBlank(s) == \A k \in DOMAIN s : s[k] \in Whitespace

\* s without its leading and trailing whitespace, stated without strip()
Trimmed(s) ==
    IF IsBlank(s) THEN <<>>
    ELSE LET solid == {k \in DOMAIN s : s[k] \notin Whitespace}
             lo == CHOOSE k \in solid : \A j \in solid : k <= j
             hi == CHOOSE k \in solid : \A j \in solid : j <= k
         IN SubSeq(s, lo, hi)

(***************************************************************************)
(* Rename Views: the document                                              *)
(***************************************************************************)
ViewIds == 1..NumViews

\* what collect_views() can tell about a view
ViewClasses == {"plain", "template", "sheet", "assembly", "internal"}

\* view names present in a project: plain, longer, and one with a leading blank
DocNames == {<<"a">>, <<"a", "a">>, <<" ", "a">>}

\* texts typed into the Find and Replace boxes (None: an empty TextBox.Text)
BoxTexts == {None, <<>>} \cup {<<c>> : c \in Chars}

RECURSIVE InsertByName(_, _, _)
InsertByName(seq, v, nm) ==
    IF seq = <<>> THEN <<v>>
    ELSE IF NameLess(nm[v], nm[Head(seq)]) THEN <<v>> \o seq
    ELSE <<Head(seq)>> \o InsertByName(Tail(seq), v, nm)

\* sorted(ids, key=lambda v: v.Name), stable
RECURSIVE SortedByName(_, _)
SortedByName(seq, nm) ==
    IF seq = <<>> THEN <<>>
    ELSE InsertByName(SortedByName(SubSeq(seq, 1, Len(seq) - 1), nm), seq[Len(seq)], nm)

\* the four "continue" filters of collect_views
IsRenameable(cls) == cls = "plain"

\* the collector visits the views in id order
AllViewsSeq == [i \in 1..NumViews |-> i]

\* a mutant of collect_views that forgets every filter
collect_views_unfiltered(nm, cls) == SortedByName(AllViewsSeq, nm)

collect_views(nm, cls) ==
    SortedByName(SelectSeq(AllViewsSeq, LAMBDA v : IsRenameable(cls[v])), nm)

\* ViewRow.__init__
ViewRow(v, nm) == [Id |-> v, CurrentName |-> nm[v], NewName |-> nm[v]]

Range(f) == {f[x] : x \in DOMAIN f}

(***************************************************************************)
(* ensure_unique_names                                                     *)
(***************************************************************************)
new_name_of(row) == strip(or_empty(row.NewName))

\* the first loop: rows that are neither blank nor unchanged
BuildRenameMap(rs) ==
    LET keep == {i \in DOMAIN rs :
                    new_name_of(rs[i]) # <<>> /\ new_name_of(rs[i]) # rs[i].CurrentName}
    IN [id \in {rs[i].Id : i \in keep} |->
            new_name_of(rs[CHOOSE i \in keep : rs[i].Id = id])]

\* len(new_names) != len(set(new_names))
HasDuplicates(m) == Cardinality(DOMAIN m) # Cardinality(Range(m))

\* names of collected views that are not renamed in this batch
ExistingNames(m, nm, cls) ==
    {nm[v] : v \in Range(collect_views(nm, cls)) \ DOMAIN m}

Conflicts(m, nm, cls) == {n \in Range(m) : n \in ExistingNames(m, nm, cls)}

EmptyMap == <<>>

\* a mutant that skips the check against the other views
ensure_unique_names_no_existing_check(rs, nm, cls) ==
    LET m == BuildRenameMap(rs) IN
    IF DOMAIN m = {} THEN [rename_map |-> EmptyMap, error |-> "None"]
    ELSE IF HasDuplicates(m) THEN [rename_map |-> EmptyMap, error |-> "Duplicate"]
    ELSE [rename_map |-> m, error |-> "None"]

\* a mutant that skips the check inside the selection
ensure_unique_names_no_duplicate_check(rs, nm, cls) ==
    LET m == BuildRenameMap(rs) IN
    IF DOMAIN m = {} THEN [rename_map |-> EmptyMap, error |-> "None"]
    ELSE IF Conflicts(m, nm, cls) # {} THEN [rename_map |-> EmptyMap, error |-> "Exists"]
    ELSE [rename_map |-> m, error |-> "None"]

ensure_unique_names(rs, nm, cls) ==
    LET m == BuildRenameMap(rs) IN
    IF DOMAIN m = {} THEN [rename_map |-> EmptyMap, error |-> "None"]
    ELSE IF HasDuplicates(m) THEN [rename_map |-> EmptyMap, error |-> "Duplicate"]
    ELSE IF Conflicts(m, nm, cls) # {} THEN [rename_map |-> EmptyMap, error |-> "Exists"]
    ELSE [rename_map |-> m, error |-> "None"]

(***************************************************************************)
(* Rename Views: main() and the dialog                                     *)
(***************************************************************************)
InitRenameDoc ==
    /\ viewName \in [ViewIds -> DocNames]
    \* view names are pairwise distinct when the tool starts, and view ids
    \* number the views in name order (ids are opaque)
    /\ \A i, j \in ViewIds : i < j => NameLess(viewName[i], viewName[j])
    /\ viewClass \in [ViewIds -> ViewClasses]
    /\ startName = viewName
    /\ pc = "collecting"
    /\ rows = <<>>
    /\ rename_map = EmptyMap
    /\ error = "None"
    /\ txn = "none"
    /\ pending = {}
    /\ ncommit = 0
    /\ DialogResult = "None"
    /\ nvalidate = 0

\* the Rename Views button has not been pressed
RenameIdle ==
    /\ viewName = [v \in ViewIds |-> <<"a">>]
    /\ viewClass = [v \in ViewIds |-> "template"]
    /\ startName = viewName
    /\ pc = "idle"
    /\ rows = <<>>
    /\ rename_map = EmptyMap
    /\ error = "None"
    /\ txn = "none"
    /\ pending = {}
    /\ ncommit = 0
    /\ DialogResult = "None"
    /\ nvalidate = 0

\* main(), lines 153-159: collect, build the rows, show the dialog
Collect ==
    /\ UNCHANGED <<qaVars, resolveVars, tagqaVars, genVars>>
    /\ pc = "collecting"
    /\ LET views == collect_views(viewName, viewClass) IN
        IF views = <<>>
        THEN /\ pc' = "exit_no_views"
             /\ rows' = rows
        ELSE /\ pc' = "editing"
             /\ rows' = [i \in DOMAIN views |-> ViewRow(views[i], viewName)]
    /\ UNCHANGED <<viewName, viewClass, startName, rename_map, error, txn, pending,
                   ncommit, DialogResult, nvalidate>>

\* a grid cell edit: the user types a new name (or clears the cell) in one row
EditCell ==
    /\ UNCHANGED <<qaVars, resolveVars, tagqaVars, genVars>>
    /\ pc = "editing"
    /\ \E i \in DOMAIN rows : \E text \in Names \cup {None} :
          rows' = [rows EXCEPT ![i].NewName = text]
    /\ UNCHANGED <<viewName, viewClass, startName, pc, rename_map, error, txn, pending,
                   ncommit, DialogResult, nvalidate>>

\* one row after the Find/Replace button
find_replace_row(row, find_value, replace_value) ==
    IF row.NewName # None /\ row.NewName # <<>>
    THEN [row EXCEPT !.NewName = replace(row.NewName, find_value, replace_value)]
    ELSE row

\* RenameViewsWindow.apply_find_replace with the two text boxes filled as given
find_replace(find_text, replace_text) ==
    /\ UNCHANGED <<qaVars, resolveVars, tagqaVars, genVars>>
    /\ pc = "editing"
    /\ LET find_value == or_empty(find_text)
           replace_value == or_empty(replace_text)
           after == [i \in DOMAIN rows |->
                         find_replace_row(rows[i], find_value, replace_value)]
       IN IF find_value = <<>>
          THEN rows' = rows
          ELSE \* the grid holds texts of at most MaxLen characters
               /\ \A i \in DOMAIN after :
                     after[i].NewName = None \/ Len(after[i].NewName) <= MaxLen
               /\ rows' = after
    /\ UNCHANGED <<viewName, viewClass, startName, pc, rename_map, error, txn, pending,
                   ncommit, DialogResult, nvalidate>>

\* RenameViewsWindow.apply_find_replace
apply_find_replace ==
    \E find_text \in BoxTexts, replace_text \in BoxTexts :
        find_replace(find_text, replace_text)

\* RenameViewsWindow.reset_names
reset_names ==
    /\ UNCHANGED <<qaVars, resolveVars, tagqaVars, genVars>>
    /\ pc = "editing"
    /\ rows' = [i \in DOMAIN rows |-> [rows[i] EXCEPT !.NewName = rows[i].CurrentName]]
    /\ UNCHANGED <<viewName, viewClass, startName, pc, rename_map, error, txn, pending,
                   ncommit, DialogResult, nvalidate>>

\* a mutant of accept_changes after which main() skips ensure_unique_names
accept_changes_skips_validation ==
    /\ UNCHANGED <<qaVars, resolveVars, tagqaVars, genVars>>
    /\ pc = "editing"
    /\ DialogResult' = "True"
    /\ rename_map' = BuildRenameMap(rows)
    /\ pc' = "apply"
    /\ UNCHANGED <<viewName, viewClass, startName, rows, error, txn, pending,
                   ncommit, nvalidate>>

\* RenameViewsWindow.accept_changes: DialogResult = True, the window closes
accept_changes ==
    /\ UNCHANGED <<qaVars, resolveVars, tagqaVars, genVars>>
    /\ pc = "editing"
    /\ DialogResult' = "True"
    /\ pc' = "validating"
    /\ UNCHANGED <<viewName, viewClass, startName, rows, rename_map, error, txn, pending,
                   ncommit, nvalidate>>

\* a mutant of main() that ignores the dialog's result
after_cancel_goes_on == "validating"

\* main(), lines 161-162: "if not result: script.exit()"
after_cancel == "cancelled"

\* RenameViewsWindow.cancel_window, or closing the window: DialogResult is
\* False and main() leaves
cancel_window ==
    /\ UNCHANGED <<qaVars, resolveVars, tagqaVars, genVars>>
    /\ pc = "editing"
    /\ DialogResult' = "False"
    /\ pc' = after_cancel
    /\ UNCHANGED <<viewName, viewClass, startName, rows, rename_map, error, txn, pending,
                   ncommit, nvalidate>>

\* a mutant of main() whose alert does not exit the script
after_error_goes_on == "apply"

\* main(), lines 165-166: forms.alert(error, ok=True, exitscript=True)
after_error == "aborted"

\* main(), lines 164-166: validate; an error alerts and exits the script
Validate ==
    /\ UNCHANGED <<qaVars, resolveVars, tagqaVars, genVars>>
    /\ pc = "validating"
    /\ LET res == ensure_unique_names(rows, viewName, viewClass) IN
        /\ rename_map' = res.rename_map
        /\ error' = res.error
        /\ pc' = IF res.error # "None" THEN after_error ELSE "apply"
    /\ nvalidate' = nvalidate + 1
    /\ UNCHANGED <<viewName, viewClass, startName, rows, txn, pending, ncommit,
                   DialogResult>>

\* apply_renames, lines 138-142: nothing to do, or open the transaction
ApplyStart ==
    /\ UNCHANGED <<qaVars, resolveVars, tagqaVars, genVars>>
    /\ pc = "apply"
    /\ IF DOMAIN rename_map = {}
       THEN /\ pc' = "done_no_changes"
            /\ UNCHANGED <<txn, pending>>
       ELSE /\ pc' = "in_transaction"
            /\ txn' = "open"
            /\ pending' = DOMAIN rename_map
    /\ UNCHANGED <<viewName, viewClass, startName, rows, rename_map, error, ncommit,
                   DialogResult, nvalidate>>

\* a mutant of the assignment that leaves the view as it was
set_name_keeps_old(nm, elid, new_name) == nm

\* view.Name = new_name
set_name(nm, elid, new_name) == [nm EXCEPT ![elid] = new_name]

\* apply_renames, lines 143-149: one iteration of the loop over
\* rename_map.items(), whose order is the dictionary's
ApplyStep ==
    /\ UNCHANGED <<qaVars, resolveVars, tagqaVars, genVars>>
    /\ pc = "in_transaction"
    /\ \E elid \in pending :
          /\ viewName' = set_name(viewName, elid, rename_map[elid])
          /\ pending' = pending \ {elid}
    /\ UNCHANGED <<viewClass, startName, pc, rows, rename_map, error, txn, ncommit,
                   DialogResult, nvalidate>>

\* leaving the "with revit.Transaction" block commits
Commit ==
    /\ UNCHANGED <<qaVars, resolveVars, tagqaVars, genVars>>
    /\ pc = "in_transaction"
    /\ pending = {}
    /\ txn' = "committed"
    /\ ncommit' = ncommit + 1
    /\ pc' = "done"
    /\ UNCHANGED <<viewName, viewClass, startName, rows, rename_map, error, pending,
                   DialogResult, nvalidate>>

NextRename ==
    \/ Collect
    \/ EditCell
    \/ apply_find_replace
    \/ reset_names
    \/ accept_changes
    \/ cancel_window
    \/ Validate
    \/ ApplyStart
    \/ ApplyStep
    \/ Commit

(***************************************************************************)
(* Duplicate Door / Duplicate window: unique type names                    *)
(***************************************************************************)
\* largest number in parentheses a type name of the family ends with
MaxSuffix == 2

DigitChars == <<"0", "1", "2", "3", "4", "5", "6", "7", "8", "9">>

\* str(n) for n >= 0
RECURSIVE str(_)
str(n) ==
    IF n < 10 THEN <<DigitChars[n + 1]>>
    ELSE str(n \div 10) \o <<DigitChars[(n % 10) + 1]>>

\* a mutant of the format string without the blank
format_name_no_blank(base, n) == base \o <<"(">> \o str(n) \o <<")">>

\* "{} ({})".format(base, counter)
format_name(base, n) == base \o <<" ", "(">> \o str(n) \o <<")">>

\* "New Window Type"
NewWindowType ==
    <<"N", "e", "w", " ", "W", "i", "n", "d", "o", "w", " ", "T", "y", "p", "e">>

\* the names passed as base_name
GenBases == {<<>>, <<"a">>}

\* the names the types of the family can bear
TypeNames ==
    GenBases \cup {format_name(b, k) : b \in GenBases \cup {NewWindowType},
                                       k \in 1..MaxSuffix}

GenKinds == {"door", "window"}

\* Duplicate Door line 52, Duplicate window line 69: return base_name as it is
returns_base(kind, base, existing) ==
    IF kind = "door" THEN base \notin existing
    ELSE base # <<>> /\ base \notin existing

\* Duplicate Door uses base_name; Duplicate window line 73:
\* base = base_name or "New Window Type"
loop_base(kind, base) ==
    IF kind = "window" /\ base = <<>> THEN NewWindowType ELSE base

\* no generator runs
GenIdle ==
    /\ gen_kind = "door"
    /\ gen_pc = "idle"
    /\ base_name = <<>>
    /\ existing_names = {}
    /\ counter = 0
    /\ gen_result = <<>>

\* the generator is called; the names of the family's types are collected
InitGenCall ==
    /\ gen_kind \in GenKinds
    /\ gen_pc = "check_base"
    /\ base_name \in GenBases
    /\ existing_names \in SUBSET TypeNames
    /\ counter = 0
    /\ gen_result = <<>>

\* Duplicate Door lines 52-55, Duplicate window lines 69-73
GenCheckBase ==
    /\ UNCHANGED <<renameVars, qaVars, resolveVars, tagqaVars>>
    /\ gen_pc = "check_base"
    /\ IF returns_base(gen_kind, base_name, existing_names)
       THEN /\ gen_result' = base_name
            /\ gen_pc' = "returned"
            /\ counter' = counter
       ELSE /\ counter' = 1
            /\ gen_pc' = "loop"
            /\ gen_result' = gen_result
    /\ UNCHANGED <<gen_kind, base_name, existing_names>>

\* Duplicate Door lines 56-60, Duplicate window lines 74-78: one iteration
GenTry ==
    /\ UNCHANGED <<renameVars, qaVars, resolveVars, tagqaVars>>
    /\ gen_pc = "loop"
    /\ LET candidate == format_name(loop_base(gen_kind, base_name), counter) IN
        IF candidate \notin existing_names
        THEN /\ gen_result' = candidate
             /\ gen_pc' = "returned"
             /\ counter' = counter
        ELSE /\ counter' = counter + 1
             /\ UNCHANGED <<gen_pc, gen_result>>
    /\ UNCHANGED <<gen_kind, base_name, existing_names>>

NextGen ==
    \/ GenCheckBase
    \/ GenTry

(***************************************************************************)
(* Door Tag QA (Project.panel/edit.stack/Listdoor.pushbutton): elements    *)
(***************************************************************************)
TagDoorIds == 1..NumTagDoors

\* a FamilyInstance of another category
WindowId == NumTagDoors + 1
\* an element that is no FamilyInstance
WallId == NumTagDoors + 2
\* a FamilyInstance whose Category is None
NoCategoryId == NumTagDoors + 3
\* an id doc.GetElement() finds no element for
DanglingId == NumTagDoors + 4

\* DB.ElementId.InvalidElementId
InvalidElementId == -1
\* a reference whose ElementId is None
NullId == -2

\* the elements of the document a tag can point to
TagElems == TagDoorIds \cup {WindowId, WallId, NoCategoryId}

\* the ids a reference can carry
RefIds == TagElems \cup {DanglingId, InvalidElementId, NullId}

\* doc.GetElement(eid) finds an element
GetElement(eid) == eid \in TagElems

\* isinstance(elem, DB.FamilyInstance)
IsFamilyInstance(e) == e \in TagDoorIds \cup {WindowId, NoCategoryId}

\* elem.Category
Category(e) ==
    IF e \in TagDoorIds THEN "OST_Doors"
    ELSE IF e = NoCategoryId THEN "None"
    ELSE IF e = WindowId THEN "OST_Windows"
    ELSE "OST_Walls"

\* sequences over S of at most n items
SeqsUpTo(S, n) == UNION {[1..k -> S] : k \in 0..n}

\* an accessor call: it hands out items in order and then, if fails, raises
\* (a call that raises at once, or returns None where a loop follows, has no
\* items and fails)
Calls(S) == [items : SeqsUpTo(S, MaxRefs), fails : BOOLEAN]

\* tag.TaggedElementId: raises, is None, or is a reference
SingleRefs == {[kind |-> "raise", id |-> NullId], [kind |-> "None", id |-> NullId]}
              \cup [kind : {"ref"}, id : RefIds]

\* every answer a host can give for one tag
TagData == [local : Calls(TagElems), multi : Calls(RefIds), single : SingleRefs]

(***************************************************************************)
(* Door Tag QA: the body of "for tag in tags"                              *)
(***************************************************************************)
\* lines 80-87: GetTaggedLocalElements; any exception empties the list
local_elems(t) == IF t.local.fails THEN <<>> ELSE t.local.items

\* a mutant of the test that lets the invalid id through
is_valid_id_not_null(eid) == eid # NullId

\* line 97 and 105: eid and eid != DB.ElementId.InvalidElementId
is_valid_id(eid) == eid # NullId /\ eid # InvalidElementId

\* lines 93-100: GetTaggedElementIds; the ids added before an exception stay
multi_ids(t) == {t.multi.items[k] : k \in {j \in DOMAIN t.multi.items :
                                              is_valid_id(t.multi.items[j])}}

\* lines 103-108: TaggedElementId
single_ids(t) ==
    IF t.single.kind = "ref" /\ is_valid_id(t.single.id) THEN {t.single.id} ELSE {}

\* a mutant of line 102 that always asks the legacy accessor
needs_single_always(ids) == TRUE

\* line 102: if not ref_ids
needs_single(ids) == ids = {}

\* a mutant of line 90 that always runs the id based methods
needs_fallback_always(elems) == TRUE

\* line 90: if not tagged_elems
needs_fallback(elems) == elems = <<>>

\* lines 117-126: the elements that are doors of door_id_set
is_door_of(e, door_id_set) ==
    /\ IsFamilyInstance(e)
    /\ Category(e) # "None"
    /\ Category(e) = "OST_Doors"
    /\ e \in door_id_set

\* every enumeration of a set as a list
Enumerations(S) == {q \in [1..Cardinality(S) -> S] : Range(q) = S}

\* the Door Tag QA button has not been pressed
ResolveIdle ==
    /\ tag = [local |-> [items |-> <<>>, fails |-> FALSE],
              multi |-> [items |-> <<>>, fails |-> FALSE],
              single |-> [kind |-> "None", id |-> NullId]]
    /\ r_pc = "idle"
    /\ tagged_elems = <<>>
    /\ ref_ids = {}
    /\ consulted = <<>>
    /\ escaped = FALSE
    /\ tag_doors = {}
    /\ tag_link = <<>>
    /\ runs = 0
    /\ first_doors = {}

\* the display texts a tag can show
TagTexts == {<<>>, <<"1">>, <<"2">>}

ViewKinds == {"plans", "elevs"}

\* run() has not started
TagQaIdle ==
    /\ tq_pc = "idle"
    /\ tdoors = <<>>
    /\ door_ids = {}
    /\ plan_views = <<>>
    /\ elev_views = <<>>
    /\ scan_pos = 0
    /\ tagged_door_ids = {}
    /\ doors_tagged_in_plans = {}
    /\ doors_tagged_in_elevs = {}
    /\ tq_all_rows = <<>>
    /\ inconsistent_rows = <<>>
    /\ ann_doors = [k \in ViewKinds |-> {}]
    /\ ann_texts = [k \in ViewKinds |-> [d \in TagDoorIds |-> {}]]
    /\ other_views = {}
    /\ off_doors = {}
    /\ scanned = [k \in ViewKinds |-> {}]

\* the loop reaches a tag; tagged_elems = []
InitResolveTag ==
    /\ tag \in TagData
    /\ r_pc = "local"
    /\ tagged_elems = <<>>
    /\ ref_ids = {}
    /\ consulted = <<>>
    /\ escaped = FALSE
    /\ tag_doors = {}
    /\ tag_link = <<>>
    /\ runs = 0
    /\ first_doors = {}

\* a mutant without the "except:" clauses
swallow_nothing(failed) == failed

\* "except:" catches whatever the try block raised: nothing leaves it
swallow(failed) == FALSE

\* lines 77-87: first strategy
TryLocal ==
    /\ UNCHANGED <<renameVars, qaVars, tagqaVars, genVars>>
    /\ r_pc = "local"
    /\ consulted' = Append(consulted, "GetTaggedLocalElements")
    /\ escaped' = swallow(tag.local.fails)
    /\ tagged_elems' = local_elems(tag)
    /\ r_pc' = IF escaped' THEN "raised"
               ELSE IF needs_fallback(tagged_elems') THEN "multi" ELSE "filter"
    /\ UNCHANGED <<tag, ref_ids, tag_doors, tag_link, runs, first_doors>>

\* lines 90-100: ref_ids = set(); second strategy
TryMulti ==
    /\ UNCHANGED <<renameVars, qaVars, tagqaVars, genVars>>
    /\ r_pc = "multi"
    /\ consulted' = Append(consulted, "GetTaggedElementIds")
    /\ escaped' = swallow(tag.multi.fails)
    /\ ref_ids' = multi_ids(tag)
    /\ r_pc' = IF escaped' THEN "raised"
               ELSE IF needs_single(ref_ids') THEN "single" ELSE "lookup"
    /\ UNCHANGED <<tag, tagged_elems, tag_doors, tag_link, runs, first_doors>>

\* lines 102-108: third strategy
TrySingle ==
    /\ UNCHANGED <<renameVars, qaVars, tagqaVars, genVars>>
    /\ r_pc = "single"
    /\ consulted' = Append(consulted, "TaggedElementId")
    /\ escaped' = swallow(tag.single.kind = "raise")
    /\ ref_ids' = single_ids(tag)
    /\ r_pc' = IF escaped' THEN "raised" ELSE "lookup"
    /\ UNCHANGED <<tag, tagged_elems, tag_doors, tag_link, runs, first_doors>>

\* lines 110-113: "for eid in ref_ids", in the set's order
Lookup ==
    /\ UNCHANGED <<renameVars, qaVars, tagqaVars, genVars>>
    /\ r_pc = "lookup"
    /\ \E order \in Enumerations(ref_ids) :
          tagged_elems' = SelectSeq(order, GetElement)
    /\ r_pc' = "filter"
    /\ UNCHANGED <<tag, ref_ids, consulted, escaped, tag_doors, tag_link, runs,
                   first_doors>>

\* lines 117-126: keep the doors
FilterDoors ==
    /\ UNCHANGED <<renameVars, qaVars, tagqaVars, genVars>>
    /\ r_pc = "filter"
    /\ tag_doors' = {e \in Range(tagged_elems) : is_door_of(e, TagDoorIds)}
    /\ r_pc' = "done"
    /\ runs' = runs + 1
    /\ first_doors' = IF runs = 0 THEN tag_doors' ELSE first_doors
    /\ UNCHANGED <<tag, tagged_elems, ref_ids, consulted, escaped, tag_link>>

NextResolve ==
    \/ TryLocal
    \/ TryMulti
    \/ TrySingle
    \/ Lookup
    \/ FilterDoors

\* most elements one tag is attached to
MaxLink == 2

\* the lists of distinct elements a tag can be attached to
Links == {q \in SeqsUpTo(TagElems, MaxLink) : Cardinality(Range(q)) = Len(q)}

\* an accessor enumerating lk: all of it, or a proper part of it before it raises
Enumerating(lk) ==
    {[items |-> lk, fails |-> FALSE]}
    \cup {[items |-> SubSeq(lk, 1, k), fails |-> TRUE] : k \in 0..(Len(lk) - 1)}
    \cup {[items |-> <<>>, fails |-> TRUE]}

\* TaggedElementId of a tag attached to lk: it raises, or gives the one element
SingleOn(lk) ==
    {[kind |-> "raise", id |-> NullId]}
    \cup (IF Len(lk) = 1 THEN {[kind |-> "ref", id |-> lk[1]]}
          ELSE IF lk = <<>> THEN {[kind |-> "None", id |-> NullId],
                                  [kind |-> "ref", id |-> InvalidElementId]}
          ELSE {})

\* every answer a host can give for a tag attached to lk
LinkTags(lk) ==
    [local : Enumerating(lk), multi : Enumerating(lk), single : SingleOn(lk)]

\* the loop reaches a tag attached to some elements of the document
InitLinkTag ==
    /\ tag_link \in Links
    /\ tag \in LinkTags(tag_link)
    /\ r_pc = "local"
    /\ tagged_elems = <<>>
    /\ ref_ids = {}
    /\ consulted = <<>>
    /\ escaped = FALSE
    /\ tag_doors = {}
    /\ runs = 0
    /\ first_doors = {}

\* the loop body is run a second time on the same tag
ResolveAgain ==
    /\ UNCHANGED <<renameVars, qaVars, tagqaVars, genVars>>
    /\ r_pc = "done"
    /\ runs = 1
    /\ r_pc' = "local"
    /\ tagged_elems' = <<>>
    /\ ref_ids' = {}
    /\ consulted' = <<>>
    /\ tag_doors' = {}
    /\ UNCHANGED <<tag, escaped, tag_link, runs, first_doors>>

NextLink ==
    \/ NextResolve
    \/ ResolveAgain

(***************************************************************************)
(* Door QA (Annotate.panel/Legends.stack/Listdoor.pushbutton)              *)
(***************************************************************************)
DoorIds == 1..NumDoors

\* what d.get_Parameter(ALL_MODEL_MARK) can be: no parameter, or a parameter
\* with its AsString() and AsValueString()
NoParam == [exists |-> FALSE, AsString |-> None, AsValueString |-> None]

MarkParams ==
    {NoParam} \cup
    [exists : {TRUE}, AsString : Names \cup {None}, AsValueString : Names \cup {None}]

\* x or y, for strings that may be None or empty
py_or(x, y) == IF x # None /\ x # <<>> THEN x ELSE y

\* lines 38-41: mark_val
mark_val_of(p) ==
    IF p.exists THEN py_or(py_or(p.AsString, p.AsValueString), <<>>) ELSE <<>>

\* a mutant of the test of line 51 that forgets strip()
is_missing_mark_empty_only(mark_val) == mark_val = <<>>

\* line 51: not mark_val.strip()
is_missing_mark(mark_val) == strip(mark_val) = <<>>

\* a mutant of line 61 that groups by the untrimmed value
mark_key_untrimmed(mark_val) == mark_val

\* line 61: key = mark_val.strip()
mark_key(mark_val) == strip(mark_val)

\* mark_map.setdefault(key, []).append(info)
setdefault_append(m, key, info) ==
    [k \in DOMAIN m \cup {key} |->
        IF k = key
        THEN (IF key \in DOMAIN m THEN m[key] ELSE <<>>) \o <<info>>
        ELSE m[k]]

Blank == <<"(blank)">>

\* the Door QA button has not been pressed
QaIdle ==
    /\ qa_pc = "idle"
    /\ doors = <<>>
    /\ absent_ids = {}
    /\ door_infos = <<>>
    /\ missing_mark_rows = <<>>
    /\ mark_map = <<>>
    /\ keys_left = {}
    /\ duplicate_mark_rows = <<>>
    /\ all_rows = <<>>

\* lines 12-23: the collector has returned the model's doors
InitQaDoors ==
    /\ qa_pc = "start"
    /\ \E n \in 0..NumDoors : doors = [i \in 1..n |-> i]
    /\ absent_ids = {}
    /\ door_infos = <<>>
    /\ missing_mark_rows = <<>>
    /\ mark_map = <<>>
    /\ keys_left = {}
    /\ duplicate_mark_rows = <<>>
    /\ all_rows = <<>>

\* lines 17-23: "if not doors" alerts; otherwise the loop starts
QaStart ==
    /\ UNCHANGED <<renameVars, resolveVars, tagqaVars, genVars>>
    /\ qa_pc = "start"
    /\ qa_pc' = IF doors = <<>> THEN "no_doors" ELSE "door_loop"
    /\ UNCHANGED <<doors, absent_ids, door_infos, missing_mark_rows, mark_map, keys_left,
                   duplicate_mark_rows, all_rows>>

\* lines 25-62: one iteration of "for d in doors", reading the door's Mark
QaDoor ==
    /\ UNCHANGED <<renameVars, resolveVars, tagqaVars, genVars>>
    /\ qa_pc = "door_loop"
    /\ Len(door_infos) < Len(doors)
    /\ \E p \in MarkParams :
          LET d == doors[Len(door_infos) + 1]
              mark_val == mark_val_of(p)
              info == [id |-> d, mark |-> mark_val]
          IN /\ absent_ids' = IF p.exists THEN absent_ids ELSE absent_ids \cup {d}
             /\ door_infos' = Append(door_infos, info)
             /\ IF is_missing_mark(mark_val)
                THEN /\ missing_mark_rows' =
                            Append(missing_mark_rows, [id |-> d, mark |-> Blank])
                     /\ mark_map' = mark_map
                ELSE /\ mark_map' = setdefault_append(mark_map, mark_key(mark_val), info)
                     /\ missing_mark_rows' = missing_mark_rows
    /\ UNCHANGED <<qa_pc, doors, keys_left, duplicate_mark_rows, all_rows>>

\* the door loop is exhausted; "for mark_value, infos in mark_map.items()" starts
QaDoorsDone ==
    /\ UNCHANGED <<renameVars, resolveVars, tagqaVars, genVars>>
    /\ qa_pc = "door_loop"
    /\ Len(door_infos) = Len(doors)
    /\ qa_pc' = "duplicate_loop"
    /\ keys_left' = DOMAIN mark_map
    /\ UNCHANGED <<doors, absent_ids, door_infos, missing_mark_rows, mark_map,
                   duplicate_mark_rows, all_rows>>

\* a mutant of line 66 that reports groups of one
is_duplicate_group_any(infos) == Len(infos) > 0

\* line 66: len(infos) > 1
is_duplicate_group(infos) == Len(infos) > 1

\* lines 65-73: one iteration over mark_map.items(), in the dictionary's order
QaDuplicates ==
    /\ UNCHANGED <<renameVars, resolveVars, tagqaVars, genVars>>
    /\ qa_pc = "duplicate_loop"
    /\ \E mark_value \in keys_left :
          LET infos == mark_map[mark_value] IN
          /\ keys_left' = keys_left \ {mark_value}
          /\ duplicate_mark_rows' =
                IF is_duplicate_group(infos)
                THEN duplicate_mark_rows \o
                        [k \in DOMAIN infos |-> [id |-> infos[k].id, mark |-> mark_value]]
                ELSE duplicate_mark_rows
    /\ UNCHANGED <<qa_pc, doors, absent_ids, door_infos, missing_mark_rows, mark_map, all_rows>>

\* a mutant that leaves the doors of the missing table out of the summary
QaReport_without_missing ==
    /\ UNCHANGED <<renameVars, resolveVars, tagqaVars, genVars>>
    /\ qa_pc = "duplicate_loop"
    /\ keys_left = {}
    /\ all_rows' = LET kept == SelectSeq(door_infos,
                                         LAMBDA info : ~is_missing_mark(info.mark))
                   IN  [k \in DOMAIN kept |-> [id |-> kept[k].id, mark |-> kept[k].mark]]
    /\ qa_pc' = "done"
    /\ UNCHANGED <<doors, absent_ids, door_infos, missing_mark_rows, mark_map, keys_left,
                   duplicate_mark_rows>>

\* lines 75-124: print the tables, build all_rows, alert and log the counts
QaReport ==
    /\ UNCHANGED <<renameVars, resolveVars, tagqaVars, genVars>>
    /\ qa_pc = "duplicate_loop"
    /\ keys_left = {}
    /\ all_rows' = [k \in DOMAIN door_infos |->
                        [id |-> door_infos[k].id, mark |-> door_infos[k].mark]]
    /\ qa_pc' = "done"
    /\ UNCHANGED <<doors, absent_ids, door_infos, missing_mark_rows, mark_map, keys_left,
                   duplicate_mark_rows>>

NextQa ==
    \/ QaStart
    \/ QaDoor
    \/ QaDoorsDone
    \/ QaDuplicates
    \/ QaReport

InitQa == RenameIdle /\ InitQaDoors /\ ResolveIdle /\ TagQaIdle /\ GenIdle

SpecQa == InitQa /\ [][NextQa]_vars

\* ids of the rows of a table, in table order
IdsOf(table) == [k \in DOMAIN table |-> table[k].id]

\* C3: a visited door is in the missing table if and only if its Mark is
\* absent, empty or whitespace-only, and no door of the missing table is in
\* the duplicate table.
C3_MissingIffBlank ==
    /\ \A k \in DOMAIN door_infos :
          (door_infos[k].id \in Range(IdsOf(missing_mark_rows)))
              <=> IsBlank(door_infos[k].mark)
    /\ absent_ids \subseteq Range(IdsOf(missing_mark_rows))
    /\ Range(IdsOf(missing_mark_rows)) \cap Range(IdsOf(duplicate_mark_rows)) = {}
    /\ Range(IdsOf(missing_mark_rows)) \cap
          UNION {Range(IdsOf(mark_map[key])) : key \in DOMAIN mark_map} = {}

\* C3 witness: a finished report with a whitespace-only Mark, an absent Mark
\* and a door that has a Mark
C3_Witness ==
    /\ qa_pc = "done"
    /\ \E k \in DOMAIN door_infos : door_infos[k].mark # <<>> /\ IsBlank(door_infos[k].mark)
    /\ absent_ids # {}
    /\ \E k \in DOMAIN door_infos : door_infos[k].id \notin Range(IdsOf(missing_mark_rows))

\* the doors whose trimmed Mark is v, in the order they were supplied
HoldersOf(v) ==
    IdsOf(SelectSeq(door_infos, LAMBDA info : Trimmed(info.mark) = v))

\* the ids of the duplicate rows that report value v, in table order
ReportedFor(v) ==
    IdsOf(SelectSeq(duplicate_mark_rows, LAMBDA row : row.mark = v))

\* C4: in the finished report, every trimmed non-empty value held by two or
\* more doors is reported with exactly those doors, each once, in supply
\* order; a value held by one door (and any untrimmed key) has no rows.
C4_DuplicateGroupsExact ==
    qa_pc = "done" =>
        /\ \A v \in Names \ {<<>>} :
              ReportedFor(v) = IF v = Trimmed(v) /\ Len(HoldersOf(v)) >= 2
                               THEN HoldersOf(v)
                               ELSE <<>>
        /\ \A k \in DOMAIN duplicate_mark_rows :
              duplicate_mark_rows[k].mark \in Names \ {<<>>}

\* C4 witness: Scenario A, the first and third door share a Mark and the
\* second has none
C4_Witness ==
    /\ qa_pc = "done"
    /\ Len(door_infos) = 3
    /\ Trimmed(door_infos[1].mark) = Trimmed(door_infos[3].mark)
    /\ door_infos[1].mark # door_infos[3].mark
    /\ IsBlank(door_infos[2].mark)
    /\ IdsOf(missing_mark_rows) = <<2>>
    /\ IdsOf(duplicate_mark_rows) = <<1, 3>>

InitResolve == RenameIdle /\ QaIdle /\ InitResolveTag /\ TagQaIdle /\ GenIdle

SpecResolve == InitResolve /\ [][NextResolve]_vars

\* what GetTaggedLocalElements yields to the caller: its items, unless it raised
LocalYield(t) == IF t.local.fails THEN {} ELSE Range(t.local.items)

\* the valid ids GetTaggedElementIds yields before it stops or raises
MultiYield(t) == Range(t.multi.items) \ {InvalidElementId, NullId}

Called(name) == \E k \in DOMAIN consulted : consulted[k] = name

\* C10 as claimed: once a tag is resolved, TaggedElementId was consulted if
\* and only if GetTaggedElementIds yielded no valid id.
C10_LegacyIffMultiEmpty ==
    r_pc = "done" => (Called("TaggedElementId") <=> MultiYield(tag) = {})

\* C10 as amended: the accessors are consulted in the fixed order
\* GetTaggedLocalElements, GetTaggedElementIds, TaggedElementId, each at most
\* once; GetTaggedElementIds is consulted if and only if
\* GetTaggedLocalElements yielded no element, and TaggedElementId if and only
\* if in addition GetTaggedElementIds yielded no valid id (it raised at once
\* or part-way, returned nothing, or returned only invalid ids); no exception
\* leaves the loop body.
C10_FallThroughInOrder ==
    /\ ~escaped /\ r_pc # "raised"
    /\ \E k \in 0..3 :
          consulted = SubSeq(<<"GetTaggedLocalElements", "GetTaggedElementIds",
                               "TaggedElementId">>, 1, k)
    /\ r_pc \in {"lookup", "filter", "done"} =>
          /\ Called("GetTaggedLocalElements")
          /\ Called("GetTaggedElementIds") <=> LocalYield(tag) = {}
          /\ Called("TaggedElementId") <=> (LocalYield(tag) = {} /\ MultiYield(tag) = {})

\* C10 witness: the first accessor raised, the second yielded an invalid id
\* and then raised, and the legacy accessor supplied the door
C10_Witness ==
    /\ r_pc = "done"
    /\ tag.local.fails
    /\ tag.multi.fails /\ tag.multi.items # <<>>
    /\ consulted = <<"GetTaggedLocalElements", "GetTaggedElementIds", "TaggedElementId">>
    /\ tag_doors # {}

(***************************************************************************)
(* Door Tag QA: run()                                                      *)
(***************************************************************************)
\* v.ViewType and v.IsTemplate of the views of the document
ViewTypes == {"FloorPlan", "Elevation", "Section"}

ViewOptions == [ViewType : ViewTypes, IsTemplate : BOOLEAN]

\* a mutant that takes the templates along
RECURSIVE get_views_of_type_with_templates(_, _, _)
get_views_of_type_with_templates(allviews, vtype, i) ==
    IF i > Len(allviews) THEN <<>>
    ELSE IF allviews[i].ViewType = vtype
         THEN <<i>> \o get_views_of_type_with_templates(allviews, vtype, i + 1)
         ELSE get_views_of_type_with_templates(allviews, vtype, i + 1)

\* lines 24-31: the non template views of one type, in collector order
RECURSIVE get_views_of_type(_, _, _)
get_views_of_type(allviews, vtype, i) ==
    IF i > Len(allviews) THEN <<>>
    ELSE IF ~allviews[i].IsTemplate /\ allviews[i].ViewType = vtype
         THEN <<i>> \o get_views_of_type(allviews, vtype, i + 1)
         ELSE get_views_of_type(allviews, vtype, i + 1)

\* lines 76-126: the door ids one tag adds
resolve_tag(t, door_id_set) ==
    LET elems == local_elems(t)
        multi == multi_ids(t)
        ids   == IF needs_single(multi) THEN single_ids(t) ELSE multi
        found == IF needs_fallback(elems) THEN {e \in ids : GetElement(e)}
                 ELSE Range(elems)
    IN  {e \in found : is_door_of(e, door_id_set)}

\* which accessors the running host version offers: all of them, none before
\* GetTaggedElementIds, only TaggedElementId, or none
ApiLevels == {"local", "multi", "single", "none"}

Raises == [items |-> <<>>, fails |-> TRUE]

\* the answers of a host of the given level for a tag attached to link
TagOfLink(link, api) ==
    [local  |-> IF api = "local" THEN [items |-> link, fails |-> FALSE] ELSE Raises,
     multi  |-> IF api \in {"local", "multi"} THEN [items |-> link, fails |-> FALSE]
                ELSE Raises,
     single |-> IF api = "none" \/ Len(link) > 1 THEN [kind |-> "raise", id |-> NullId]
                ELSE IF link = <<>> THEN [kind |-> "ref", id |-> InvalidElementId]
                ELSE [kind |-> "ref", id |-> link[1]]]

\* the elements of the document besides the doors
OtherElems == {WindowId}

\* the tags a view can hold: attached to at most MaxRefs distinct elements
ViewTags(ds) ==
    {TagOfLink(link, api) :
        link \in {q \in SeqsUpTo(ds \cup OtherElems, MaxRefs) :
                     Cardinality(Range(q)) = Len(q)},
        api \in ApiLevels}

\* a mutant that calls a door consistent only when tagged on both sides
status_of_both_tagged(plan_tagged, elev_tagged) ==
    IF plan_tagged /\ elev_tagged THEN "OK" ELSE "Inconsistent"

\* lines 173-176
status_of(plan_tagged, elev_tagged) ==
    IF plan_tagged = elev_tagged THEN "OK" ELSE "Inconsistent"

\* lines 154-185: the row of one door
tag_row(did, in_plans, in_elevs) ==
    LET plan_tagged == did \in in_plans
        elev_tagged == did \in in_elevs
    IN  [Id        |-> did,
         plan_text |-> IF plan_tagged THEN "Yes" ELSE "No",
         elev_text |-> IF elev_tagged THEN "Yes" ELSE "No",
         status    |-> status_of(plan_tagged, elev_tagged)]

\* the Door Tag QA button is pressed
InitTagQaRun ==
    /\ tq_pc = "start"
    /\ tdoors = <<>>
    /\ door_ids = {}
    /\ plan_views = <<>>
    /\ elev_views = <<>>
    /\ scan_pos = 0
    /\ tagged_door_ids = {}
    /\ doors_tagged_in_plans = {}
    /\ doors_tagged_in_elevs = {}
    /\ tq_all_rows = <<>>
    /\ inconsistent_rows = <<>>
    /\ ann_doors = [k \in ViewKinds |-> {}]
    /\ ann_texts = [k \in ViewKinds |-> [d \in TagDoorIds |-> {}]]
    /\ other_views = {}
    /\ off_doors = {}
    /\ scanned = [k \in ViewKinds |-> {}]

\* the views run() does not look at: templates and views of other types
IsOtherView(v) == v.IsTemplate \/ v.ViewType \notin {"FloorPlan", "Elevation"}

\* the doors the tags placed in such views can point to
OffDoors(allviews, ds) ==
    IF \E i \in DOMAIN allviews : IsOtherView(allviews[i]) THEN SUBSET ds ELSE {{}}

\* lines 134-144: the doors and the two view lists
TqStart ==
    /\ UNCHANGED <<renameVars, qaVars, resolveVars, genVars>>
    /\ tq_pc = "start"
    /\ \E n \in 0..NumTagDoors, allviews \in SeqsUpTo(ViewOptions, NumTagViews) :
          /\ tdoors' = [i \in 1..n |-> i]
          /\ other_views' = {i \in DOMAIN allviews : IsOtherView(allviews[i])}
          /\ off_doors' \in OffDoors(allviews, 1..n)
          /\ IF n = 0
             THEN /\ tq_pc' = "no_doors"
                  /\ UNCHANGED <<door_ids, plan_views, elev_views>>
             ELSE /\ tq_pc' = "scan_plans"
                  /\ door_ids' = Range(tdoors')
                  /\ plan_views' = get_views_of_type(allviews, "FloorPlan", 1)
                  /\ elev_views' = get_views_of_type(allviews, "Elevation", 1)
    /\ UNCHANGED <<scan_pos, tagged_door_ids, doors_tagged_in_plans,
                   doors_tagged_in_elevs, tq_all_rows, inconsistent_rows,
                   ann_doors, ann_texts, scanned>>

\* the list of views get_tagged_door_ids_in_views is running over
ScanViews == IF tq_pc = "scan_plans" THEN plan_views ELSE elev_views

ScanKind == IF tq_pc = "scan_plans" THEN "plans" ELSE "elevs"

\* lines 68-73: "for view in views" takes the next view and collects its tags
TqNextView ==
    /\ UNCHANGED <<renameVars, qaVars, resolveVars, genVars>>
    /\ tq_pc \in {"scan_plans", "scan_elevs"}
    /\ scan_pos < Len(ScanViews)
    /\ scan_pos' = scan_pos + 1
    /\ scanned' = [scanned EXCEPT ![ScanKind] = @ \cup {ScanViews[scan_pos + 1]}]
    /\ UNCHANGED <<tq_pc, tdoors, door_ids, plan_views, elev_views, tagged_door_ids,
                   doors_tagged_in_plans, doors_tagged_in_elevs, tq_all_rows,
                   inconsistent_rows, ann_doors, ann_texts, other_views, off_doors>>

\* the valid id TaggedElementId yields
SingleYield(t) ==
    IF t.single.kind = "ref" THEN {t.single.id} \ {InvalidElementId, NullId} ELSE {}

\* the doors the first accessor that yields anything points to
TargetDoors(t) ==
    TagDoorIds \cap (IF LocalYield(t) # {} THEN LocalYield(t)
                     ELSE IF MultiYield(t) # {} THEN MultiYield(t)
                     ELSE SingleYield(t))

\* lines 75-126: "for tag in tags" handles one tag of the view
TqScanTag ==
    /\ UNCHANGED <<renameVars, qaVars, resolveVars, genVars>>
    /\ tq_pc \in {"scan_plans", "scan_elevs"}
    /\ scan_pos >= 1
    /\ \E t \in ViewTags(door_ids), text \in TagTexts :
          /\ tagged_door_ids' = tagged_door_ids \cup resolve_tag(t, door_ids)
          /\ ann_doors' = [ann_doors EXCEPT ![ScanKind] = @ \cup TargetDoors(t)]
          /\ ann_texts' = [ann_texts EXCEPT ![ScanKind] =
                [d \in TagDoorIds |->
                    IF d \in TargetDoors(t) /\ text # <<>> THEN @[d] \cup {text}
                    ELSE @[d]]]
    /\ UNCHANGED <<tq_pc, tdoors, door_ids, plan_views, elev_views, scan_pos,
                   doors_tagged_in_plans, doors_tagged_in_elevs, tq_all_rows,
                   inconsistent_rows,
                   other_views, off_doors, scanned>>

\* line 147: the scan of the plan views returns
TqPlansDone ==
    /\ UNCHANGED <<renameVars, qaVars, resolveVars, genVars>>
    /\ tq_pc = "scan_plans"
    /\ scan_pos = Len(plan_views)
    /\ doors_tagged_in_plans' = tagged_door_ids
    /\ tq_pc' = "scan_elevs"
    /\ scan_pos' = 0
    /\ tagged_door_ids' = {}
    /\ UNCHANGED <<tdoors, door_ids, plan_views, elev_views, doors_tagged_in_elevs,
                   tq_all_rows, inconsistent_rows, ann_doors, ann_texts,
                   other_views, off_doors, scanned>>

\* line 148: the scan of the elevation views returns
TqElevsDone ==
    /\ UNCHANGED <<renameVars, qaVars, resolveVars, genVars>>
    /\ tq_pc = "scan_elevs"
    /\ scan_pos = Len(elev_views)
    /\ doors_tagged_in_elevs' = tagged_door_ids
    /\ tq_pc' = "rows"
    /\ UNCHANGED <<tdoors, door_ids, plan_views, elev_views, scan_pos,
                   tagged_door_ids, doors_tagged_in_plans, tq_all_rows,
                   inconsistent_rows, ann_doors, ann_texts,
                   other_views, off_doors, scanned>>

\* a mutant that puts every row into the inconsistency table
TqRow_lists_every_door ==
    /\ UNCHANGED <<renameVars, qaVars, resolveVars, genVars>>
    /\ tq_pc = "rows"
    /\ Len(tq_all_rows) < Len(tdoors)
    /\ LET row == tag_row(tdoors[Len(tq_all_rows) + 1], doors_tagged_in_plans,
                          doors_tagged_in_elevs)
       IN  /\ tq_all_rows' = Append(tq_all_rows, row)
           /\ inconsistent_rows' = Append(inconsistent_rows, row)
    /\ UNCHANGED <<tq_pc, tdoors, door_ids, plan_views, elev_views, scan_pos,
                   tagged_door_ids, doors_tagged_in_plans, doors_tagged_in_elevs,
                   ann_doors, ann_texts,
                   other_views, off_doors, scanned>>

\* lines 153-191: "for door in doors" handles one door
TqRow ==
    /\ UNCHANGED <<renameVars, qaVars, resolveVars, genVars>>
    /\ tq_pc = "rows"
    /\ Len(tq_all_rows) < Len(tdoors)
    /\ LET row == tag_row(tdoors[Len(tq_all_rows) + 1], doors_tagged_in_plans,
                          doors_tagged_in_elevs)
       IN  /\ tq_all_rows' = Append(tq_all_rows, row)
           /\ inconsistent_rows' = IF row.status = "Inconsistent"
                                   THEN Append(inconsistent_rows, row)
                                   ELSE inconsistent_rows
    /\ UNCHANGED <<tq_pc, tdoors, door_ids, plan_views, elev_views, scan_pos,
                   tagged_door_ids, doors_tagged_in_plans, doors_tagged_in_elevs,
                   ann_doors, ann_texts,
                   other_views, off_doors, scanned>>

\* lines 193-209: the tables are printed
TqPrint ==
    /\ UNCHANGED <<renameVars, qaVars, resolveVars, genVars>>
    /\ tq_pc = "rows"
    /\ Len(tq_all_rows) = Len(tdoors)
    /\ tq_pc' = "done"
    /\ UNCHANGED <<tdoors, door_ids, plan_views, elev_views, scan_pos,
                   tagged_door_ids, doors_tagged_in_plans, doors_tagged_in_elevs,
                   tq_all_rows, inconsistent_rows, ann_doors, ann_texts,
                   other_views, off_doors, scanned>>

NextTagQa ==
    \/ TqStart
    \/ TqNextView
    \/ TqScanTag
    \/ TqPlansDone
    \/ TqElevsDone
    \/ TqRow
    \/ TqPrint

InitTagQa == RenameIdle /\ QaIdle /\ ResolveIdle /\ InitTagQaRun /\ GenIdle

SpecTagQa == InitTagQa /\ [][NextTagQa]_vars

\* the loop body, taken step by step, adds what resolve_tag computes
ResolveStepsAgree ==
    r_pc = "done" => tag_doors = resolve_tag(tag, TagDoorIds)

\* the status shown for door d in the "All doors" table
StatusOf(d) ==
    tq_all_rows[CHOOSE k \in DOMAIN tq_all_rows : tq_all_rows[k].Id = d].status

Reported(d) == \E k \in DOMAIN tq_all_rows : tq_all_rows[k].Id = d

\* C5 as claimed: a door is OK if and only if its display text sets in plans
\* and in elevations are both empty, or both non-empty and equal.
C5_OkIffTextSetsAgree ==
    \A d \in TagDoorIds :
        Reported(d) =>
            (StatusOf(d) = "OK" <=>
                \/ ann_texts["plans"][d] = {} /\ ann_texts["elevs"][d] = {}
                \/ /\ ann_texts["plans"][d] # {}
                   /\ ann_texts["elevs"][d] # {}
                   /\ ann_texts["plans"][d] = ann_texts["elevs"][d])

\* C5 as amended: a door is OK if and only if tags of non template plan views
\* and tags of non template elevation views both resolve to it, or neither do;
\* the display texts of the tags play no part.
C5_OkIffPresenceAgrees ==
    \A d \in TagDoorIds :
        Reported(d) =>
            (StatusOf(d) = "OK" <=>
                (d \in ann_doors["plans"] <=> d \in ann_doors["elevs"]))

\* C5 witness: a door tagged in both view kinds with different display texts
\* is reported OK
C5_Witness ==
    \E d \in TagDoorIds :
        /\ Reported(d)
        /\ StatusOf(d) = "OK"
        /\ ann_texts["plans"][d] # {}
        /\ ann_texts["elevs"][d] # {}
        /\ ann_texts["plans"][d] # ann_texts["elevs"][d]

\* C11: the ids and elements a tag is resolved to never include the invalid
\* id or a null id, only doors are added, no exception leaves the loop body,
\* and a tag none of whose accessors yields a target adds nothing.
C11_OnlyValidTargets ==
    /\ ref_ids \cap {InvalidElementId, NullId} = {}
    /\ Range(tagged_elems) \subseteq TagElems
    /\ tag_doors \subseteq TagDoorIds
    /\ ~escaped /\ r_pc # "raised"
    /\ (r_pc = "done" /\ LocalYield(tag) = {} /\ MultiYield(tag) = {}
           /\ SingleYield(tag) = {}) => tag_doors = {}

\* C11 witness: GetTaggedElementIds handed out the invalid id, no accessor
\* yielded a target, and the tag was resolved to nothing
C11_Witness ==
    /\ r_pc = "done"
    /\ InvalidElementId \in Range(tag.multi.items)
    /\ tag.local.fails /\ tag.single.kind = "raise"
    /\ Len(consulted) = 3
    /\ tag_doors = {}

\* the row of door d in the "All doors" table
TagRowOf(d) == tq_all_rows[CHOOSE k \in DOMAIN tq_all_rows : tq_all_rows[k].Id = d]

\* C13: no template and no view of another type has its tags read, and a door
\* is shown as tagged in plans (in elevations) exactly when a tag of a scanned
\* non template plan (elevation) resolves to it, whatever the tags of the
\* other views point to.
C13_OtherViewsIgnored ==
    /\ (scanned["plans"] \cup scanned["elevs"]) \cap other_views = {}
    /\ \A d \in TagDoorIds :
          Reported(d) =>
              /\ TagRowOf(d).plan_text = "Yes" <=> d \in ann_doors["plans"]
              /\ TagRowOf(d).elev_text = "Yes" <=> d \in ann_doors["elevs"]

\* C13 witness: a door that only tags of templates or other views point to,
\* in a document whose plan was scanned, is reported untagged and OK
C13_Witness ==
    \E d \in TagDoorIds :
        /\ Reported(d)
        /\ d \in off_doors
        /\ other_views # {}
        /\ scanned["plans"] # {}
        /\ TagRowOf(d).plan_text = "No"
        /\ TagRowOf(d).elev_text = "No"
        /\ TagRowOf(d).status = "OK"

\* one of the two door reports is started
InitReports ==
    /\ RenameIdle
    /\ GenIdle
    /\ ResolveIdle
    /\ \/ InitQaDoors /\ TagQaIdle
       \/ QaIdle /\ InitTagQaRun

NextReports ==
    \/ NextQa
    \/ NextTagQa

SpecReports == InitReports /\ [][NextReports]_vars

\* door ids of the rows of the "All doors" table of Door Tag QA, in table order
TagIdsOf(table) == [k \in DOMAIN table |-> table[k].Id]

IsPrefix(p, q) == Len(p) <= Len(q) /\ p = SubSeq(q, 1, Len(p))

C15_InconsistentRowsExact ==
    inconsistent_rows =
        SelectSeq(tq_all_rows, LAMBDA row : row.status = "Inconsistent")

\* C15 witness: a finished report whose only door is tagged in plans and not
\* in elevations and stands in the inconsistency table
C15_Witness ==
    /\ tq_pc = "done"
    /\ \E k \in DOMAIN inconsistent_rows :
          /\ inconsistent_rows[k].plan_text = "Yes"
          /\ inconsistent_rows[k].elev_text = "No"
          /\ inconsistent_rows[k].Id \in ann_doors["plans"] \ ann_doors["elevs"]

InitLink == RenameIdle /\ QaIdle /\ InitLinkTag /\ TagQaIdle /\ GenIdle

SpecLink == InitLink /\ [][NextLink]_vars

\* some accessor supplied the elements of the finished resolution
Supplied == tagged_elems # <<>>

\* C12 as claimed: whichever accessor ends up supplying the targets of a tag,
\* also after an earlier or the same accessor failed part-way, the doors
\* resolved are the doors the tag is attached to, and a second resolution of
\* the same tag gives the same doors as the first.
C12_StrategiesAgree ==
    r_pc = "done" =>
        /\ Supplied => tag_doors = Range(tag_link) \cap TagDoorIds
        /\ tag_doors = first_doors

InitRename == InitRenameDoc /\ QaIdle /\ ResolveIdle /\ TagQaIdle /\ GenIdle

SpecRename == InitRename /\ [][NextRename]_vars

(***************************************************************************)
(* Rename Views: properties                                                *)
(***************************************************************************)
\* ensure_unique_names has returned
Validated == nvalidate > 0

\* the row of the grid that shows view id
RowOf(id) == CHOOSE i \in DOMAIN rows : rows[i].Id = id

\* the proposed name of a row, as the batch would write it
Proposed(i) == IF rows[i].NewName = None THEN <<>> ELSE Trimmed(rows[i].NewName)

\* the rows the batch renames: proposed name neither blank nor the current one
ApplyRows == {i \in DOMAIN rows : Proposed(i) # <<>> /\ Proposed(i) # rows[i].CurrentName}

\* the collected views this batch does not rename
NotRenamed ==
    {v \in ViewIds : IsRenameable(viewClass[v])} \ {rows[i].Id : i \in ApplyRows}

\* C1: whenever ensure_unique_names has reported a conflict, apply_renames
\* was not entered, no transaction was opened and every view of the
\* document still bears the name it had when the tool started.
C1_ConflictAppliesNothing ==
    error # "None" =>
        /\ pc = "aborted"
        /\ txn = "none"
        /\ ncommit = 0
        /\ pending = {}
        /\ viewName = startName

\* C1 witness: Scenario E, two rows propose the same name and the run aborted
C1_Witness ==
    /\ pc = "aborted"
    /\ error = "Duplicate"
    /\ \E i, j \in DOMAIN rows : i # j /\ i \in ApplyRows /\ j \in ApplyRows
                                  /\ Proposed(i) = Proposed(j)

\* C2: validation fails exactly when two rows of the apply set propose the
\* same name, or a row of the apply set proposes the name a collected view
\* outside the apply set bears; otherwise it returns the apply set.
C2_RejectsExactlyOnCollision ==
    Validated =>
        LET clash == \E i, j \in ApplyRows : i # j /\ Proposed(i) = Proposed(j)
            taken == \E i \in ApplyRows : \E v \in NotRenamed : Proposed(i) = startName[v]
        IN /\ (error # "None") <=> (clash \/ taken)
           /\ error = "None" =>
                /\ DOMAIN rename_map = {rows[i].Id : i \in ApplyRows}
                /\ \A i \in ApplyRows : rename_map[rows[i].Id] = Proposed(i)

\* C2 witness: a batch rejected only because a proposed name is borne by a
\* collected view that is not renamed
C2_Witness ==
    /\ Validated
    /\ error = "Exists"
    /\ ~ \E i, j \in ApplyRows : i # j /\ Proposed(i) = Proposed(j)
    /\ \E i \in ApplyRows : \E v \in NotRenamed : Proposed(i) = startName[v]

\* a row the user left blank, filled with blanks, or left at its current name
IsNoOpRow(row) ==
    \/ row.NewName = None
    \/ IsBlank(row.NewName)
    \/ row.NewName = row.CurrentName

\* C6: a row whose proposed name is empty, whitespace-only or equal to its
\* current name is not in the apply set and does not make validation fail;
\* when every row is such a row, validation passes with an empty apply set
\* and no transaction is opened.
C6_NoOpRowsExcluded ==
    Validated =>
        /\ \A i \in DOMAIN rows :
              IsNoOpRow(rows[i]) => rows[i].Id \notin DOMAIN rename_map
        /\ (\A i \in DOMAIN rows : IsNoOpRow(rows[i])) =>
              /\ error = "None"
              /\ rename_map = EmptyMap
              /\ txn = "none"

\* C7: after the transaction has committed, every view of the apply set bears
\* its proposed name, every other view bears the name it started with, and
\* exactly one transaction was committed; while the transaction is open the
\* views outside the apply set keep their names.
C7_ApplyCommitsWholeBatch ==
    /\ pc = "done" =>
          /\ txn = "committed" /\ ncommit = 1
          /\ DOMAIN rename_map # {}
          /\ \A id \in DOMAIN rename_map :
                viewName[id] = rename_map[id] /\ viewName[id] = Proposed(RowOf(id))
          /\ \A v \in ViewIds \ DOMAIN rename_map : viewName[v] = startName[v]
    /\ pc = "in_transaction" =>
          \A v \in ViewIds \ DOMAIN rename_map : viewName[v] = startName[v]
    /\ (pc = "apply" /\ DOMAIN rename_map # {}) => ENABLED ApplyStart

\* C7 witness: a committed batch of two renames, next to a view left alone
C7_Witness ==
    /\ pc = "done"
    /\ Cardinality(DOMAIN rename_map) >= 2
    /\ \A id \in DOMAIN rename_map : viewName[id] # startName[id]

\* C8: once the dialog was cancelled or closed, ensure_unique_names was never
\* called, no transaction was opened and every view bears its start name.
C8_CancelTouchesNothing ==
    DialogResult = "False" =>
        /\ pc = "cancelled"
        /\ nvalidate = 0
        /\ rename_map = EmptyMap /\ error = "None"
        /\ txn = "none" /\ ncommit = 0 /\ pending = {}
        /\ viewName = startName

\* C8 witness: cancelled after the grid was edited into a batch that would
\* have renamed something
C8_Witness ==
    /\ DialogResult = "False"
    /\ ApplyRows # {}

\* the order of main(): Collecting, Editing, Validating, Applying | Aborted
StepsInOrder ==
    <<pc, pc'>> \in {
        <<"collecting", "editing">>, <<"collecting", "exit_no_views">>,
        <<"editing", "editing">>, <<"editing", "validating">>, <<"editing", "cancelled">>,
        <<"validating", "apply">>, <<"validating", "aborted">>,
        <<"apply", "in_transaction">>, <<"apply", "done_no_changes">>,
        <<"in_transaction", "in_transaction">>, <<"in_transaction", "done">>}

\* C9: every step of a run follows the order Collecting, Editing, Validating,
\* then Applying or Aborted; Applying is entered only by a validation that
\* passed on the names the grid holds at that moment, which no later step
\* changes; an aborted run commits nothing; and no step follows the commit.
C9_StatesInOrder ==
    [][ /\ StepsInOrder
        /\ pc' = "apply" =>
              /\ pc = "validating"
              /\ error' = "None"
              /\ ensure_unique_names(rows', startName, viewClass).error = "None"
              /\ rename_map' = ensure_unique_names(rows', startName, viewClass).rename_map
        /\ pc \notin {"collecting", "editing"} => rows' = rows
        /\ pc' = "aborted" => (txn' = "none" /\ ncommit' = 0)
        /\ (txn' = "open" \/ viewName' # viewName) => pc' = "in_transaction"
        /\ ncommit = 0 /\ ncommit' <= 1
        /\ pc \notin {"aborted", "cancelled", "done", "done_no_changes", "exit_no_views"}
      ]_vars

\* C9 witness: a run that went through every state and committed
C9_Witness ==
    /\ pc = "done"
    /\ ncommit = 1
    /\ nvalidate = 1
    /\ DialogResult = "True"

\* the rows keep their view and its current name
CurrentNamesKept ==
    /\ DOMAIN rows' = DOMAIN rows
    /\ \A k \in DOMAIN rows :
          /\ rows'[k].Id = rows[k].Id
          /\ rows'[k].CurrentName = rows[k].CurrentName

\* Reset, find/replace with an empty find text, and any step of the dialog
ResetRestores ==
    /\ reset_names =>
          /\ \A k \in DOMAIN rows' : rows'[k].NewName = rows'[k].CurrentName
          /\ ensure_unique_names(rows', viewName, viewClass).rename_map = EmptyMap
    /\ \A f \in {None, <<>>}, r \in BoxTexts : find_replace(f, r) => rows' = rows
    /\ pc = "editing" => CurrentNamesKept

\* C16 as claimed: Reset sets every proposal to the row's current name, and
\* accepting right after it gives an empty apply set; find/replace with an
\* empty find text changes no proposal; no step of the dialog changes a
\* row's current name.
C16_ResetRestores == [][ResetRestores]_vars

\* the views the tool can rename
Renameable == {v \in ViewIds : viewClass[v] = "plain"}

DistinctNames(S) == \A i, j \in S : i # j => viewName[i] # viewName[j]

\* C17: the renameable views bear pairwise distinct names when the tool
\* starts, and again after every run that applied its batch and committed.
C17_CommitKeepsNamesDistinct ==
    /\ pc = "collecting" => DistinctNames(Renameable)
    /\ (pc = "done" /\ ncommit > 0) => DistinctNames(Renameable)

\* C17 witness: a committed run in which one view took the start name of
\* another renamed view
C17_Witness ==
    /\ pc = "done" /\ ncommit > 0
    /\ \E i, j \in Renameable :
          /\ i # j
          /\ viewName[i] = startName[j]
          /\ viewName[j] # startName[j]

\* C18 as claimed: while the rename transaction is open, after each single
\* assignment of a name, no two views of the document bear the same name.
C18_DistinctAtEveryStep ==
    txn = "open" => DistinctNames(ViewIds)

InitGen == RenameIdle /\ QaIdle /\ ResolveIdle /\ TagQaIdle /\ InitGenCall

\* the loop keeps running until it returns
SpecGen == InitGen /\ [][NextGen]_vars /\ WF_vars(NextGen)

\* base followed by a blank and k in parentheses
Candidate(base, k) == base \o <<" ", "(">> \o str(k) \o <<")">>

\* the returned name is the candidate of the smallest unused number
IsLeastCandidate(base, name) ==
    \E k \in 1..(Cardinality(existing_names) + 1) :
        /\ name = Candidate(base, k)
        /\ name \notin existing_names
        /\ \A j \in 1..(k - 1) : Candidate(base, j) \in existing_names

ReturnedAsAmended ==
    gen_pc = "returned" =>
        /\ gen_result \notin existing_names
        /\ (base_name # <<>> /\ base_name \notin existing_names) =>
              gen_result = base_name
        /\ (base_name # <<>> /\ base_name \in existing_names) =>
              IsLeastCandidate(base_name, gen_result)
        /\ (base_name = <<>> /\ gen_kind = "door") =>
              IF <<>> \in existing_names
              THEN IsLeastCandidate(<<>>, gen_result)
              ELSE gen_result = <<>>
        /\ (base_name = <<>> /\ gen_kind = "window") =>
              IsLeastCandidate(NewWindowType, gen_result)

====
